---- MODULE Spec2Model ----
(***************************************************************************)
(* A model of the three Rust templates of the coding-standards skill:      *)
(*   lib-template.rs   MyLib (new, process, config, Clone)                 *)
(*   main-template.rs  App (run = read_input ; process ; write_output)     *)
(*   test-template.rs  Calculator, async_operation and the test harnesses  *)
(* Each template has its own specification (SpecLib, SpecApp, SpecCalc,    *)
(* SpecAsync and, with the runtime's fairness, FairSpecAsync); the         *)
(* variables of the other templates stay at their idle value.              *)
(***************************************************************************)
EXTENDS Integers, Sequences, FiniteSets, TLC

VARIABLES
    libs,       \* lib-template: the MyLib values that exist
    libCall,    \* lib-template: the last call and what it returned
    config,     \* main-template: App.config (input, output)
    fs,         \* main-template: the files, path -> content or NoFile
    fs0,        \* main-template: the files as they were when run was called
    stdout,     \* main-template: what has been printed
    pc,         \* main-template: the position of App::run
    inputBuf,   \* main-template: run's local `input`
    outputBuf,  \* main-template: run's local `output`
    runRet,     \* main-template: how run ended
    trace,      \* main-template: the steps run has taken, in order
    calc,       \* test-template: the Calculator under test
    calcCall,   \* test-template: the last Calculator call or property test
    tasks,      \* test-template: the spawned tasks, in spawn order
    completed,  \* test-template: the indices of the finished tasks, in completion order
    results,    \* test-template: the Vec that join_all and unwrap produced
    testPc,     \* test-template: the position of test_concurrent_operations
    opCall      \* test-template: the last direct async_operation call

libVars == <<libs, libCall>>

appVars == <<config, fs, fs0, stdout, pc, inputBuf, outputBuf, runRet, trace>>

calcVars == <<calc, calcCall>>

asyncVars == <<tasks, completed, results, testPc, opCall>>

vars == <<libVars, appVars, calcVars, asyncVars>>

notLib == <<appVars, calcVars, asyncVars>>

notApp == <<libVars, calcVars, asyncVars>>

notCalc == <<libVars, appVars, asyncVars>>

notAsync == <<libVars, appVars, calcVars>>

(***************************************************************************)
(* Strings are sequences of characters.                                    *)
(***************************************************************************)
MaxLen == 2
MaxLibs == 2

Chars == {"a", " "}

Whitespace == {" "}

Strings == UNION {[1..k -> Chars] : k \in 0..MaxLen}

Ok(v) == [tag |-> "Ok", val |-> v]

Err(e) == [tag |-> "Err", val |-> e]

(***************************************************************************)
(* lib-template.rs                                                         *)
(***************************************************************************)
InvalidInput(msg) == [variant |-> "InvalidInput", msg |-> msg]

\* format!("PROCESSED: {}", input): the literal text before the argument.
ProcessedPrefix == <<"P", "R", "O", "C", "E", "S", "S", "E", "D", ":", " ">>

\* A plausible slip: the validation of MyLib::new is left out.
MyLibNew_Unchecked(cfg) == Ok([config |-> cfg])

MyLibNew(cfg) ==
    IF cfg = <<>>
    THEN Err(InvalidInput("config cannot be empty"))
    ELSE Ok([config |-> cfg])

\* str::trim: leading and trailing whitespace removed.
RECURSIVE TrimStart(_)
TrimStart(s) == IF s # <<>> /\ s[1] \in Whitespace THEN TrimStart(Tail(s)) ELSE s

RECURSIVE TrimEnd(_)
TrimEnd(s) ==
    IF s # <<>> /\ s[Len(s)] \in Whitespace THEN TrimEnd(SubSeq(s, 1, Len(s) - 1)) ELSE s

Trim(s) == TrimEnd(TrimStart(s))

\* A plausible variant: the input is trimmed before it is echoed.
MyLibProcess_Trimmed(self, input) ==
    IF input = <<>>
    THEN Err(InvalidInput("input cannot be empty"))
    ELSE Ok(ProcessedPrefix \o Trim(input))

\* A plausible slip: the input is echoed without the prefix.
MyLibProcess_NoPrefix(self, input) ==
    IF input = <<>>
    THEN Err(InvalidInput("input cannot be empty"))
    ELSE Ok(input)

MyLibProcess(self, input) ==
    IF input = <<>>
    THEN Err(InvalidInput("input cannot be empty"))
    ELSE Ok(ProcessedPrefix \o input)

MyLibConfig(self) == self.config

NoCall == [op |-> "none", self |-> 0, arg |-> <<>>, ret |-> Ok(<<>>), before |-> <<>>]

\* No MyLib value has been built.
InitLib ==
    /\ libs = <<>>
    /\ libCall = NoCall

\* let lib = MyLib::new(config): the value exists only when new returned Ok.
New(cfg) ==
    /\ Len(libs) < MaxLibs
    /\ LET r == MyLibNew(cfg) IN
       /\ libs' = IF r.tag = "Ok" THEN Append(libs, r.val) ELSE libs
       /\ libCall' = [op |-> "new", self |-> IF r.tag = "Ok" THEN Len(libs) + 1 ELSE 0,
                      arg |-> cfg, ret |-> r, before |-> <<>>]
    /\ UNCHANGED notLib

\* #[derive(Clone)]: a field-wise copy.
Clone(i) ==
    /\ Len(libs) < MaxLibs
    /\ libs' = Append(libs, [config |-> libs[i].config])
    /\ libCall' = [op |-> "clone", self |-> i, arg |-> <<>>,
                   ret |-> Ok(<<>>), before |-> libs[i].config]
    /\ UNCHANGED notLib

\* lib.process(input) through &self: nothing of the instance is assigned.
Process(i, input) ==
    /\ libs' = libs
    /\ libCall' = [op |-> "process", self |-> i, arg |-> input,
                   ret |-> MyLibProcess(libs[i], input),
                   before |-> MyLibConfig(libs[i])]
    /\ UNCHANGED notLib

IdleLib == InitLib

\* The value goes out of scope.
Drop ==
    /\ libs # <<>>
    /\ libs' = SubSeq(libs, 1, Len(libs) - 1)
    /\ libCall' = NoCall
    /\ UNCHANGED notLib

NextLib ==
    \/ \E cfg \in Strings : New(cfg)
    \/ \E i \in 1..Len(libs) : Clone(i)
    \/ \E i \in 1..Len(libs), input \in Strings : Process(i, input)
    \/ Drop

(***************************************************************************)
(* main-template.rs                                                        *)
(***************************************************************************)
Paths == {"in.txt", "out.txt"}

\* What a path holds: no file, or a file and its content.
NoFile == [exists |-> FALSE, data |-> <<>>]

File(data) == [exists |-> TRUE, data |-> data]


NoOutput == "None"

FileChars == {"a", "A"}

FileStrings == UNION {[1..k -> FileChars] : k \in 0..MaxLen}

Files == {File(d) : d \in FileStrings} \cup {NoFile}

Newline == "\n"

Unit == "()"

Panic == [tag |-> "Panic", val |-> "failed printing to stdout"]

NotReturned == [tag |-> "Running", val |-> ""]

\* char::to_uppercase on the characters of the model.
UpperChar(c) == IF c = "a" THEN "A" ELSE c

\* str::to_uppercase
ToUppercase(s) == [k \in 1..Len(s) |-> UpperChar(s[k])]

\* A plausible slip: the data is passed through unprocessed.
AppProcess_Identity(input) == Ok(input)

\* App::process
AppProcess(input) ==
    IF input = <<>>
    THEN Ok(input)
    ELSE Ok(ToUppercase(input))

\* The proper prefixes of data: what a write that failed midway has written.
ProperPrefixes(data) == {SubSeq(data, 1, k) : k \in 0..(Len(data) - 1)}

Step(name, ok) == [step |-> name, ok |-> ok]

IdleApp ==
    /\ config = [input |-> "in.txt", output |-> NoOutput]
    /\ fs = [p \in Paths |-> NoFile]
    /\ fs0 = fs
    /\ stdout = <<>>
    /\ pc = "idle"
    /\ inputBuf = <<>>
    /\ outputBuf = <<>>
    /\ runRet = NotReturned
    /\ trace = <<>>

\* Config::from_args, App::new and the call of run, in some state of the files.
InitApp ==
    /\ config \in [input : Paths, output : Paths \cup {NoOutput}]
    /\ fs \in [Paths -> Files]
    /\ fs0 = fs
    /\ stdout = <<>>
    /\ pc = "read_input"
    /\ inputBuf = <<>>
    /\ outputBuf = <<>>
    /\ runRet = NotReturned
    /\ trace = <<>>

\* let input = self.read_input().context("Failed to read input file")?;
\* read_to_string fails on a missing file, and may fail on one that exists
\* (permissions, invalid UTF-8, an I/O error).
ReadInput ==
    /\ pc = "read_input"
    /\ \E ok \in BOOLEAN :
        /\ ok => fs[config.input].exists
        /\ trace' = Append(trace, Step("read_input", ok))
        /\ IF ok
           THEN /\ inputBuf' = fs[config.input].data
                /\ pc' = "process"
                /\ runRet' = runRet
           ELSE /\ inputBuf' = inputBuf
                /\ pc' = "done"
                /\ runRet' = Err("Failed to read input file")
    /\ UNCHANGED <<config, fs, fs0, stdout, outputBuf>>
    /\ UNCHANGED notApp

\* let output = self.process(&input).context("Failed to process data")?;
ProcessData ==
    /\ pc = "process"
    /\ LET r == AppProcess(inputBuf) IN
        /\ trace' = Append(trace, Step("process", r.tag = "Ok"))
        /\ IF r.tag = "Ok"
           THEN /\ outputBuf' = r.val
                /\ pc' = "write_output"
                /\ runRet' = runRet
           ELSE /\ outputBuf' = outputBuf
                /\ pc' = "done"
                /\ runRet' = Err("Failed to process data")
    /\ UNCHANGED <<config, fs, fs0, stdout, inputBuf>>
    /\ UNCHANGED notApp

\* write_output, Some(path): std::fs::write creates or truncates the file and
\* writes the data; when it fails the file is as it was (it could not be
\* opened) or holds a proper prefix of the data.
WriteFile ==
    /\ pc = "write_output"
    /\ config.output # NoOutput
    /\ \E ok \in BOOLEAN :
        /\ trace' = Append(trace, Step("write_output", ok))
        /\ IF ok
           THEN /\ fs' = [fs EXCEPT ![config.output] = File(outputBuf)]
                /\ runRet' = Ok(Unit)
           ELSE /\ \E left \in {fs[config.output]} \cup
                                 {File(d) : d \in ProperPrefixes(outputBuf)} :
                      fs' = [fs EXCEPT ![config.output] = left]
                /\ runRet' = Err("Failed to write output")
    /\ pc' = "done"
    /\ UNCHANGED <<config, fs0, stdout, inputBuf, outputBuf>>
    /\ UNCHANGED notApp

\* write_output, None: println!("{}", data) prints the data and a newline, and
\* panics when stdout cannot be written.
WriteStdout ==
    /\ pc = "write_output"
    /\ config.output = NoOutput
    /\ \E ok \in BOOLEAN :
        /\ trace' = Append(trace, Step("write_output", ok))
        /\ IF ok
           THEN /\ stdout' = stdout \o outputBuf \o <<Newline>>
                /\ runRet' = Ok(Unit)
           ELSE /\ \E left \in ProperPrefixes(outputBuf \o <<Newline>>) :
                      stdout' = stdout \o left
                /\ runRet' = Panic
    /\ pc' = "done"
    /\ UNCHANGED <<config, fs, fs0, inputBuf, outputBuf>>
    /\ UNCHANGED notApp

NextApp ==
    \/ ReadInput
    \/ ProcessData
    \/ WriteFile
    \/ WriteStdout


(***************************************************************************)
(* test-template.rs: Calculator.  An f64 is modelled as an exact rational  *)
(* n/d in lowest terms, or as one of NaN, +inf, -inf; the operations       *)
(* follow IEEE 754 on the special values and are exact on the finite ones. *)
(***************************************************************************)
MaxI32 == 2147483647

MinI32 == -MaxI32 - 1

\* The largest n with 10^n a finite f64, and the smallest with 10^n > 0.
MaxPow10 == 308

MinPow10 == -323

Abs(n) == IF n < 0 THEN -n ELSE n

RECURSIVE Gcd(_, _)
Gcd(a, b) == IF b = 0 THEN a ELSE Gcd(b, a % b)

Fin(n, d) ==
    LET g == Gcd(Abs(n), d) IN [k |-> "fin", n |-> n \div g, d |-> d \div g]

NaN == [k |-> "nan", n |-> 0, d |-> 1]

PosInf == [k |-> "inf", n |-> 1, d |-> 1]

NegInf == [k |-> "inf", n |-> -1, d |-> 1]

Zero == Fin(0, 1)

Sign(x) == IF x.n > 0 THEN 1 ELSE IF x.n < 0 THEN -1 ELSE 0

Inf(sign) == IF sign > 0 THEN PosInf ELSE NegInf

FNeg(x) == [x EXCEPT !.n = -x.n]

FAbs(x) == [x EXCEPT !.n = Abs(x.n)]

FAdd(x, y) ==
    IF x.k = "nan" \/ y.k = "nan" THEN NaN
    ELSE IF x.k = "inf" /\ y.k = "inf" THEN (IF x.n = y.n THEN x ELSE NaN)
    ELSE IF x.k = "inf" THEN x
    ELSE IF y.k = "inf" THEN y
    ELSE Fin(x.n * y.d + y.n * x.d, x.d * y.d)

FSub(x, y) == FAdd(x, FNeg(y))

FMul(x, y) ==
    IF x.k = "nan" \/ y.k = "nan" THEN NaN
    ELSE IF x.k = "inf" \/ y.k = "inf"
         THEN (IF Sign(x) * Sign(y) = 0 THEN NaN ELSE Inf(Sign(x) * Sign(y)))
    ELSE Fin(x.n * y.n, x.d * y.d)

FDiv(x, y) ==
    IF x.k = "nan" \/ y.k = "nan" THEN NaN
    ELSE IF x.k = "inf" THEN (IF y.k = "inf" THEN NaN
                              ELSE Inf(IF Sign(y) < 0 THEN -Sign(x) ELSE Sign(x)))
    ELSE IF y.k = "inf" THEN Zero
    ELSE IF y.n = 0 THEN (IF x.n = 0 THEN NaN ELSE Inf(Sign(x)))
    ELSE Fin(x.n * y.d * Sign(y), x.d * Abs(y.n))

\* f64::round: to the nearest integer, halves away from zero.
FRound(x) ==
    IF x.k # "fin" THEN x
    ELSE LET q == Abs(x.n) \div x.d
             r == Abs(x.n) % x.d
             m == IF 2 * r >= x.d THEN q + 1 ELSE q
         IN Fin(Sign(x) * m, 1)

\* x < y on f64: false when either is NaN.
FLt(x, y) ==
    /\ x.k # "nan"
    /\ y.k # "nan"
    /\ x # y
    /\ IF x.k = "inf" THEN x.n < 0
       ELSE IF y.k = "inf" THEN y.n > 0
       ELSE x.n * y.d < y.n * x.d

\* `self.precision as i32`: the u32 reinterpreted in 32 bits.
AsI32(u) == IF u <= MaxI32 THEN u ELSE (u - MaxI32 - 1) + MinI32

\* 10_f64.powi(n): overflows to +inf above 10^308, underflows to 0 below 10^-323.
Powi10(n) ==
    IF n > MaxPow10 THEN PosInf
    ELSE IF n < MinPow10 THEN Zero
    ELSE IF n >= 0 THEN Fin(10 ^ n, 1)
    ELSE Fin(1, 10 ^ (-n))

CalculatorNew(precision) == [precision |-> precision]

CalculatorAdd(self, a, b) ==
    LET multiplier == Powi10(AsI32(self.precision))
    IN FDiv(FRound(FMul(FAdd(a, b), multiplier)), multiplier)

CalculatorSubtract(self, a, b) == CalculatorAdd(self, a, FNeg(b))

CalculatorMultiply(self, a, b) ==
    LET multiplier == Powi10(AsI32(self.precision))
    IN FDiv(FRound(FMul(FMul(a, b), multiplier)), multiplier)

CalculatorDivide(self, a, b) ==
    IF b.k = "fin" /\ b.n = 0
    THEN Err("Division by zero")
    ELSE LET multiplier == Powi10(AsI32(self.precision))
         IN Ok(FDiv(FRound(FMul(FDiv(a, b), multiplier)), multiplier))

\* The inputs the model draws.  On them every product of the scale-and-round
\* steps is far from the limits of f64, and the exact results are the f64
\* results.
MaxPrecision == 2
MaxMilli == 5
MaxX == 2
MaxY == 29

Precisions == (0..MaxPrecision) \cup {MaxPow10 + 1}

\* Multiples of 0.001 around zero, inside -100.0..100.0.
Millis == {Fin(i, 1000) : i \in -MaxMilli..MaxMilli}

\* Whole numbers inside -1000.0..1000.0, and inside 1.0..1000.0.
XInputs == {Fin(i, 1) : i \in -MaxX..MaxX}

YInputs == {Fin(i, 1) : i \in 1..MaxY}

NoCalcCall == [op |-> "none", args |-> <<>>, ret |-> <<>>, before |-> 0]

IdleCalc ==
    /\ calc = CalculatorNew(0)
    /\ calcCall = NoCalcCall

InitCalc ==
    /\ calc \in {CalculatorNew(p) : p \in Precisions}
    /\ calcCall = NoCalcCall

\* let calc = Calculator::new(precision);
CalcNew(precision) ==
    /\ calcCall = NoCalcCall
    /\ calc' = CalculatorNew(precision)
    /\ calcCall' = calcCall
    /\ UNCHANGED notCalc

\* calc.divide(a, b) through &self.
Divide(a, b) ==
    /\ calcCall = NoCalcCall
    /\ calc' = calc
    /\ calcCall' = [op |-> "divide", args |-> <<a, b>>,
                    ret |-> CalculatorDivide(calc, a, b),
                    before |-> calc.precision]
    /\ UNCHANGED notCalc

\* property_based_tests::test_add_associative on its own Calculator::new(2).
TestAddAssociative(a, b, c) ==
    /\ calcCall = NoCalcCall
    /\ LET c2 == CalculatorNew(2)
           result1 == CalculatorAdd(c2, CalculatorAdd(c2, a, b), c)
           result2 == CalculatorAdd(c2, a, CalculatorAdd(c2, b, c))
       IN calcCall' = [op |-> "test_add_associative", args |-> <<a, b, c>>,
                       ret |-> <<result1, result2>>, before |-> calc.precision]
    /\ calc' = calc
    /\ UNCHANGED notCalc

\* property_based_tests::test_divide_multiply_inverse on its own Calculator::new(2).
TestDivideMultiplyInverse(x, y) ==
    /\ calcCall = NoCalcCall
    /\ LET c2 == CalculatorNew(2)
           divided == CalculatorDivide(c2, x, y).val
           multiplied == CalculatorMultiply(c2, divided, y)
       IN calcCall' = [op |-> "test_divide_multiply_inverse", args |-> <<x, y>>,
                       ret |-> <<divided, multiplied>>, before |-> calc.precision]
    /\ calc' = calc
    /\ UNCHANGED notCalc

\* The call or the test function returns; its locals are gone.
CalcReturn ==
    /\ calcCall # NoCalcCall
    /\ calcCall' = NoCalcCall
    /\ calc' = calc
    /\ UNCHANGED notCalc

NextCalc ==
    \/ CalcReturn
    \/ \E p \in Precisions : CalcNew(p)
    \/ \E a \in XInputs, b \in XInputs : Divide(a, b)
    \/ \E a \in Millis, b \in Millis, c \in Millis : TestAddAssociative(a, b, c)
    \/ \E x \in XInputs, y \in YInputs : TestDivideMultiplyInverse(x, y)

(***************************************************************************)
(* test-template.rs: async_operation and test_concurrent_operations        *)
(***************************************************************************)
NumTasks == 3
MaxSmall == 2

OverflowPanic == [tag |-> "Panic", val |-> "attempt to multiply with overflow"]

\* value * 2 on i32, when the product does not fit: wrapped to 32 bits.
WrappingDouble(value) == (value - (MaxI32 \div 2) - 1) * 2 + MinI32

\* async_operation after its sleep: the outcomes the build can produce.  An
\* overflowing value * 2 panics with overflow checks (debug) and wraps without
\* them (release).
AsyncOperation(value) ==
    IF value < 0
    THEN {Err("Negative value")}
    ELSE IF value <= MaxI32 \div 2
         THEN {Ok(value * 2)}
         ELSE {OverflowPanic, Ok(WrappingDouble(value))}

\* The i32 values the model passes to a direct call.
OpInputs ==
    (-MaxSmall..MaxSmall) \cup {MaxI32 \div 2, MaxI32 \div 2 + 1, MaxI32, MinI32}

NotRun == [tag |-> "None", val |-> 0]

NoOpCall == [op |-> "none", arg |-> 0, ret |-> NotRun]

Task(value) == [value |-> value, state |-> "spawned", ret |-> NotRun]

IdleAsync ==
    /\ tasks = <<>>
    /\ completed = <<>>
    /\ results = <<>>
    /\ testPc = "idle"
    /\ opCall = NoOpCall

InitAsync ==
    /\ tasks = <<>>
    /\ completed = <<>>
    /\ results = <<>>
    /\ testPc = "spawning"
    /\ opCall = NoOpCall

\* (0..N).map(|i| tokio::spawn(async move { async_operation(i).await })):
\* the next handle of the Vec; task i is handle i + 1 of the sequence.
Spawn ==
    /\ testPc = "spawning"
    /\ tasks' = Append(tasks, Task(Len(tasks)))
    /\ testPc' = IF Len(tasks) + 1 = NumTasks THEN "joining" ELSE "spawning"
    /\ UNCHANGED <<completed, results, opCall>>
    /\ UNCHANGED notAsync

\* Task h is polled for the first time and awaits its sleep.
TaskSleep(h) ==
    /\ h \in 1..Len(tasks)
    /\ tasks[h].state = "spawned"
    /\ tasks' = [tasks EXCEPT ![h].state = "sleeping"]
    /\ UNCHANGED <<completed, results, testPc, opCall>>
    /\ UNCHANGED notAsync

\* The sleep of task h is over: it computes its result and finishes.
TaskFinish(h) ==
    /\ h \in 1..Len(tasks)
    /\ tasks[h].state = "sleeping"
    /\ \E r \in AsyncOperation(tasks[h].value) :
          tasks' = [tasks EXCEPT ![h].state = "finished", ![h].ret = r]
    /\ completed' = Append(completed, h - 1)
    /\ UNCHANGED <<results, testPc, opCall>>
    /\ UNCHANGED notAsync

\* A plausible slip: the results are collected as the tasks complete.
JoinedResults_CompletionOrder == [k \in 1..Len(completed) |-> tasks[completed[k] + 1].ret]

\* join_all(handles).await.into_iter().map(|h| h.unwrap()).collect(): the
\* outputs of the handles, in the order of the handles.
JoinedResults == [k \in 1..Len(tasks) |-> tasks[k].ret]

\* join_all resolves once every handle has; unwrap panics on the JoinError of
\* a task that panicked.
JoinAll ==
    /\ testPc = "joining"
    /\ \A h \in 1..Len(tasks) : tasks[h].state = "finished"
    /\ IF \E h \in 1..Len(tasks) : tasks[h].ret.tag = "Panic"
       THEN /\ testPc' = "panicked"
            /\ results' = results
       ELSE /\ testPc' = "joined"
            /\ results' = JoinedResults
    /\ UNCHANGED <<tasks, completed, opCall>>
    /\ UNCHANGED notAsync

\* async_operation(value).await, called directly (test_async_operation_*).
Call(value) ==
    /\ \E r \in AsyncOperation(value) :
          opCall' = [op |-> "async_operation", arg |-> value, ret |-> r]
    /\ UNCHANGED <<tasks, completed, results, testPc>>
    /\ UNCHANGED notAsync

NextAsync ==
    \/ Spawn
    \/ \E h \in 1..Len(tasks) : TaskSleep(h)
    \/ \E h \in 1..Len(tasks) : TaskFinish(h)
    \/ JoinAll
    \/ \E value \in OpInputs : Call(value)

(***************************************************************************)
(* The specifications, one per template.                                   *)
(***************************************************************************)
LibInit == InitLib /\ IdleApp /\ IdleCalc /\ IdleAsync

SpecLib == LibInit /\ [][NextLib]_vars

AppInit == InitApp /\ IdleLib /\ IdleCalc /\ IdleAsync

SpecApp == AppInit /\ [][NextApp]_vars

CalcInit == InitCalc /\ IdleLib /\ IdleApp /\ IdleAsync

SpecCalc == CalcInit /\ [][NextCalc]_vars

AsyncInit == InitAsync /\ IdleLib /\ IdleApp /\ IdleCalc

SpecAsync == AsyncInit /\ [][NextAsync]_vars

\* The tokio runtime polls every spawned task and fires every timer, and the
\* test goes on spawning and then awaiting; the direct calls are under no
\* obligation.
FairAsync ==
    /\ WF_vars(Spawn)
    /\ WF_vars(JoinAll)
    /\ \A h \in 1..NumTasks : WF_vars(TaskSleep(h)) /\ WF_vars(TaskFinish(h))

FairSpecAsync == SpecAsync /\ FairAsync

(***************************************************************************)
(* lib-template.rs: the claims                                             *)
(***************************************************************************)

IsInvalidInput(r) == r.tag = "Err" /\ r.val.variant = "InvalidInput"

\* The text of a returned string after the "PROCESSED: " prefix.
AfterPrefix(s) == SubSeq(s, Len(ProcessedPrefix) + 1, Len(s))

\* C1: MyLib::new returns Err(InvalidInput) exactly for the empty config, and
\* Ok of a value whose config() is the given string otherwise; every MyLib
\* value that exists (clones included, after any calls) has a non-empty config.
C1_NewValidatesConfig ==
    /\ libCall.op = "new" =>
          /\ (libCall.arg = <<>>) <=> IsInvalidInput(libCall.ret)
          /\ libCall.arg # <<>> =>
                /\ libCall.ret.tag = "Ok"
                /\ MyLibConfig(libCall.ret.val) = libCall.arg
                /\ libs[libCall.self] = libCall.ret.val
    /\ \A i \in 1..Len(libs) : MyLibConfig(libs[i]) # <<>>

\* A second value was just built from a non-empty config beside an existing one.
C1_Witness ==
    /\ libCall.op = "new"
    /\ libCall.arg # <<>>
    /\ libCall.ret.tag = "Ok"
    /\ Len(libs) >= 2

\* C2: process returns Ok("PROCESSED: " ++ input) for every non-empty input and
\* Err(InvalidInput) for the empty input, and leaves the instance's config as
\* it was before the call in both cases.
C2_ProcessResult ==
    libCall.op = "process" =>
        /\ libCall.arg # <<>> => libCall.ret = Ok(ProcessedPrefix \o libCall.arg)
        /\ libCall.arg = <<>> => IsInvalidInput(libCall.ret)
        /\ MyLibConfig(libs[libCall.self]) = libCall.before

\* process has just returned Ok for a non-empty input.
C2_Witness ==
    /\ libCall.op = "process"
    /\ libCall.arg # <<>>
    /\ libCall.ret.tag = "Ok"

\* C3 as stated: the text process returns after the prefix is the input with
\* leading and trailing whitespace removed.
C3_ProcessTrims ==
    (libCall.op = "process" /\ libCall.ret.tag = "Ok") =>
        AfterPrefix(libCall.ret.val) = Trim(libCall.arg)

\* C3 as amended: process does not trim; the text after the prefix is the
\* input character for character, its leading and trailing whitespace kept.
C3_ProcessEchoesVerbatim ==
    (libCall.op = "process" /\ libCall.ret.tag = "Ok") =>
        /\ SubSeq(libCall.ret.val, 1, Len(ProcessedPrefix)) = ProcessedPrefix
        /\ Len(AfterPrefix(libCall.ret.val)) = Len(libCall.arg)
        /\ \A k \in 1..Len(libCall.arg) :
              libCall.ret.val[Len(ProcessedPrefix) + k] = libCall.arg[k]

\* process has just echoed an input that starts and ends with whitespace.
C3_Witness ==
    /\ libCall.op = "process"
    /\ libCall.ret.tag = "Ok"
    /\ Len(libCall.arg) >= 2
    /\ libCall.arg[1] \in Whitespace
    /\ libCall.arg[Len(libCall.arg)] \in Whitespace
    /\ AfterPrefix(libCall.ret.val) # Trim(libCall.arg)

(***************************************************************************)
(* main-template.rs: the claims                                            *)
(***************************************************************************)
ReadSucceeded == Len(trace) >= 1 /\ trace[1] = Step("read_input", TRUE)

ReadFailed == Len(trace) >= 1 /\ trace[1] = Step("read_input", FALSE)

WriteFailed == Len(trace) >= 3 /\ trace[3] = Step("write_output", FALSE)

\* The uppercase of what the input file held when run was called.
Uppercased == ToUppercase(fs0[config.input].data)

StartsWith(s, prefix) ==
    Len(s) >= Len(prefix) /\ SubSeq(s, 1, Len(prefix)) = prefix

StepOrder == <<"read_input", "process", "write_output">>

\* C10: run takes its steps in the order read input, process, write output,
\* each at most once; when reading fails it returns an error having processed
\* and written nothing (every file as it was, nothing printed); when writing
\* fails it returns an error.
C10_OrderedStepsAndErrors ==
    /\ Len(trace) <= Len(StepOrder)
    /\ \A k \in 1..Len(trace) : trace[k].step = StepOrder[k]
    /\ ReadFailed =>
         /\ Len(trace) = 1
         /\ runRet.tag = "Err"
         /\ fs = fs0
         /\ stdout = <<>>
    /\ (pc = "done" /\ WriteFailed) => runRet.tag = "Err"

(***************************************************************************)
(* test-template.rs: the claims about Calculator                           *)
(***************************************************************************)
\* v is q rounded to p decimal places: v is finite, within half a unit of the
\* p-th place of q, and a whole number of such units.  Beyond MaxPrecision
\* places only the distance at MaxPrecision places is stated, which the
\* rounding at any further place implies.
IsRoundedTo(v, q, p) ==
    /\ v.k = "fin"
    /\ q.k = "fin"
    /\ LET places == IF p <= MaxPrecision THEN p ELSE MaxPrecision
           scale == Fin(10 ^ places, 1)
       IN /\ ~FLt(Fin(1, 2), FAbs(FMul(FSub(v, q), scale)))
          /\ p <= MaxPrecision => FMul(v, scale).d = 1

\* C4: divide(a, b) returns Err("Division by zero") exactly when b is zero,
\* for every a and every precision; for every non-zero b it returns Ok of a/b
\* rounded to `precision` decimal places; the precision is unchanged.
C4_DivideContract ==
    calcCall.op = "divide" =>
        LET a == calcCall.args[1]
            b == calcCall.args[2]
            r == calcCall.ret
        IN /\ (b = Zero) <=> (r.tag = "Err" /\ r.val = "Division by zero")
           /\ b # Zero => r.tag = "Ok" /\ IsRoundedTo(r.val, FDiv(a, b), calc.precision)
           /\ calc.precision = calcCall.before

\* C6: at precision 2, for a, b, c in [-100, 100), the absolute difference of
\* add(add(a, b), c) and add(a, add(b, c)) is strictly less than 0.01.
C6_AddAssociative ==
    calcCall.op = "test_add_associative" =>
        FLt(FAbs(FSub(calcCall.ret[1], calcCall.ret[2])), Fin(1, 100))

\* C7: at precision 2, for x in [-1000, 1000) and y in [1, 1000), the absolute
\* difference of x and multiply(divide(x, y), y) is strictly less than 0.1.
C7_DivideMultiplyInverse ==
    calcCall.op = "test_divide_multiply_inverse" =>
        FLt(FAbs(FSub(calcCall.args[1], calcCall.ret[2])), Fin(1, 10))

(***************************************************************************)
(* test-template.rs: the claims about async_operation                      *)
(***************************************************************************)
ExpectedResults == [k \in 1..NumTasks |-> Ok(2 * (k - 1))]

\* C8: with N tasks spawned, task i running async_operation(i), under every
\* interleaving all N tasks finish and the joined list has length N with
\* Ok(2*i) at position i: spawn order, whatever the completion order.
C8_JoinedInSpawnOrder ==
    /\ <>(testPc = "joined")
    /\ [](testPc = "joined" =>
            /\ \A h \in 1..NumTasks : tasks[h].state = "finished"
            /\ Len(results) = NumTasks
            /\ results = ExpectedResults)

\* The join is done although the task spawned last finished first.
C8_Witness ==
    /\ testPc = "joined"
    /\ completed[1] = NumTasks - 1
    /\ results = ExpectedResults

\* C9: async_operation(value) returns Err("Negative value") exactly when
\* value < 0, and for every non-negative i32 returns Ok(d) with d the true
\* double of value: d is even and half of d is value.
C9_DoublesWithoutOverflow ==
    opCall.op = "async_operation" =>
        /\ (opCall.arg < 0) <=>
               (opCall.ret.tag = "Err" /\ opCall.ret.val = "Negative value")
        /\ opCall.arg >= 0 =>
               /\ opCall.ret.tag = "Ok"
               /\ opCall.ret.val % 2 = 0
               /\ opCall.ret.val \div 2 = opCall.arg

====
